---- MODULE Spec2Model ----
(***************************************************************************)
(* Session / capture-timer controller of the emotion detection programs.   *)
(*                                                                         *)
(* The repository has two entry points that implement the same controller: *)
(*   - EmotionApp (app_original.py): Tk event loop + one detection thread  *)
(*     per dispatch;                                                       *)
(*   - EmotionDetectionInterface (src/ui/interface.py) on top of           *)
(*     CameraManager (src/core/camera.py) and SessionManager               *)
(*     (src/core/session_manager.py).                                      *)
(* `prog` says which of the two is running in a behaviour.                 *)
(*                                                                         *)
(* Time is the wall clock (time.time()) in ticks of 50 ms.                 *)
(***************************************************************************)
EXTENDS Integers, Sequences, FiniteSets, TLC

\* ---------------------------------------------------------------- bounds
ClockStart == 17        \* wall-clock reading when the program is launched
MaxElapsed == 3         \* ticks of wall-clock time explored after launch
MaxSessions == 2        \* successful starts explored
MaxWorkers == 2         \* detection threads in flight at once
MaxRecords == 2         \* records accumulated in one session
MaxPending == 2         \* pending callbacks of one `after` chain
MaxLoops == 2           \* threads inside CameraManager._capture_loop at once
MaxClasses == 8         \* longest probability vector resolved to a label
SmallClasses == 3       \* longest vector drawn from the full value set

\* ------------------------------------------------------ program constants
TicksPerSecond == 20    \* strftime("%H:%M:%S") resolution: 1 s = 20 ticks
MinInterval == 2        \* max(0.1, interval): 0.1 s = 2 ticks
DefaultIntervalApp == 40 \* tk.DoubleVar(value=2.0): 2.0 s = 40 ticks
DefaultInterval == 100  \* AppConfig.DEFAULT_CAPTURE_INTERVAL: 5.0 s
MaxInterval == 1200     \* AppConfig.MAX_CAPTURE_INTERVAL: 60.0 s
CaptureMargin == 2      \* is_capture_time: time_remaining <= 0.1 s
MAX_EMOTION_HISTORY == 1000  \* PerformanceConfig.MAX_EMOTION_HISTORY
DEFAULT_CONFIDENCE_THRESHOLD == 50  \* AppConfig.DEFAULT_CONFIDENCE_THRESHOLD: 0.5
NoTime == 0 - 1         \* None for a time stamp

Max(a, b) == IF a >= b THEN a ELSE b
Min(a, b) == IF a <= b THEN a ELSE b

\* Content of the interval entry field: a number, or text that is no number.
Num(v) == [num |-> TRUE, v |-> v]
Txt == [num |-> FALSE, v |-> 0]
IntervalInputs == {Txt, Num(2), Num(3)}

\* What is typed in the interval field of EmotionDetectionInterface.
SpinboxInputs == {Txt, Num(0 - 1), Num(0), Num(2), Num(3)}

\* Confidence of a classifier result, and content of the threshold field, in
\* hundredths.
ConfInputs == {40, 60}
ThresholdInputs == {Txt, Num(50), Num(70)}

VARIABLES
  prog, now, message,
  \* EmotionApp
  model, model_loading, selected_model_path, cap, running, session_records,
  session_start_time, last_detect_time, timer_start_time, timer_enabled,
  preview_after_id, timer_after_id, previewPending, timerPending,
  capture_interval_sec, next_capture_timer, workers, uiPc,
  \* EmotionDetectionInterface, CameraManager, SessionManager
  interval_spinbox, cam_is_running, is_capturing, loops,
  current_session, session_active, session_id,
  capture_timer_enabled, capture_timer_start, capture_interval,
  threshold_spinbox, confidence_threshold,
  \* observation of the run (not program state)
  sessionNo, dispatchAt, dispatchObs, lastReport, stopOrder, intervalEdited,
  startedIds, sinceEnd,
  \* label resolution: the probability vector of one classifier call and
  \* what the program resolves it to
  prob, resolved

appVars == <<model, model_loading, selected_model_path, cap, running,
             session_records, session_start_time, last_detect_time,
             timer_start_time, timer_enabled, preview_after_id, timer_after_id,
             previewPending, timerPending, capture_interval_sec,
             next_capture_timer, workers, uiPc>>
ifaceVars == <<interval_spinbox, cam_is_running, is_capturing, loops,
               current_session, session_active, session_id,
               capture_timer_enabled, capture_timer_start, capture_interval,
               threshold_spinbox, confidence_threshold>>
obsVars == <<sessionNo, dispatchAt, dispatchObs, lastReport, stopOrder,
             intervalEdited, startedIds, sinceEnd>>
labelVars == <<prob, resolved>>
vars == <<prog, now, message, appVars, ifaceVars, obsVars, labelVars>>

\* ------------------------------------------------------------- helpers

\* tk.DoubleVar.get(): the number in the field, or TclError when the text is
\* not a floating-point number.
DoubleVarGet(f) == IF f.num THEN [exc |-> "none", v |-> f.v]
                   ELSE [exc |-> "TclError", v |-> 0]

\* datetime.now().strftime("%Y-%m-%d %H:%M:%S"): the clock cut to the second.
strftime(t) == t \div TicksPerSecond

\* An after_cancel that leaves the callback pending.
after_cancel_noop(pending, id) == pending

\* Tk `after`: a chain's pending callbacks and the id the program remembers.
\* id is "None", "live" (names a pending callback) or "stale" (names one that
\* has fired already).
after_cancel(pending, id) == IF id = "live" THEN pending - 1 ELSE pending

FreeWorker == [pc |-> "free", ts |-> 0, sess |-> 0, conf |-> 0]
HasFree == \E w \in 1..MaxWorkers : workers[w].pc = "free"
NextFree == CHOOSE w \in 1..MaxWorkers :
              /\ workers[w].pc = "free"
              /\ \A v \in 1..(w - 1) : workers[v].pc # "free"

\* What is observed of the latest dispatch of a detection: the timer cycle it
\* fell in, the cycle (same epoch, same interval) of the dispatch before it in
\* the session (NoTime when it is the first) and its offset inside the cycle.
NoDispatch == [cycle |-> NoTime, prevCycle |-> NoTime, offset |-> NoTime]
Cycle(epoch, t, interval) == (t - epoch) \div interval
Observe(epoch, t, interval, prevAt) ==
  [cycle |-> Cycle(epoch, t, interval),
   prevCycle |-> IF prevAt = NoTime THEN NoTime ELSE Cycle(epoch, prevAt, interval),
   offset |-> (t - epoch) % interval]

\* SessionManager.current_session is None
NoSession == [total_detections |-> 0, detections_history |-> <<>>,
              start_time |-> NoTime, end_time |-> NoTime, duration |-> 0]

NoReport == [n |-> 0, records |-> <<>>, interval |-> 0, duration |-> 0,
             result |-> "none"]

\* save_session_report(pdf_path, session_records, model_name,
\* capture_interval, total_duration): the call binds only when the keywords
\* are exactly the parameters.
ReportParams == {"pdf_path", "session_records", "model_name",
                 "capture_interval", "total_duration"}
save_session_report(kwargs, io) ==
  IF kwargs # ReportParams THEN "TypeError"
  ELSE IF io THEN "ok" ELSE "IOError"

\* ---------------------------------------------------------------- Init
\* The state after construction of either program.
InitState ==
  /\ now = ClockStart
  /\ message = "none"
  /\ model = "None" /\ model_loading = FALSE /\ selected_model_path = ""
  /\ cap = "None" /\ running = FALSE
  /\ session_records = <<>>
  /\ session_start_time = NoTime
  /\ last_detect_time = 0
  /\ timer_start_time = 0
  /\ timer_enabled = FALSE
  /\ preview_after_id = "None" /\ timer_after_id = "None"
  /\ previewPending = 0 /\ timerPending = 0
  /\ capture_interval_sec = Num(DefaultIntervalApp)
  /\ next_capture_timer = "-"
  /\ workers = [w \in 1..MaxWorkers |-> FreeWorker]
  /\ uiPc = "idle"
  /\ interval_spinbox = Num(DefaultInterval)
  /\ cam_is_running = FALSE /\ is_capturing = FALSE /\ loops = 0
  /\ current_session = NoSession /\ session_active = FALSE
  /\ session_id = NoTime
  /\ capture_timer_enabled = FALSE /\ capture_timer_start = NoTime
  /\ capture_interval = DefaultInterval
  /\ threshold_spinbox = Num(DEFAULT_CONFIDENCE_THRESHOLD)
  /\ confidence_threshold = DEFAULT_CONFIDENCE_THRESHOLD
  /\ sessionNo = 0 /\ dispatchAt = NoTime /\ dispatchObs = NoDispatch
  /\ lastReport = NoReport
  /\ stopOrder = <<>>
  /\ intervalEdited = FALSE
  /\ startedIds = <<>>
  /\ sinceEnd = {"never_ended"}

NoLabel == [path |-> "none", idx |-> NoTime, confidence |-> 0, label |-> <<>>]

Init ==
  /\ prog \in {"app", "iface"}
  /\ prob = <<>> /\ resolved = NoLabel
  /\ InitState

\* --------------------------------------------------------- environment
\* The wall clock advances.
Tick ==
  /\ now < ClockStart + MaxElapsed
  /\ now' = now + 1
  /\ UNCHANGED <<prog, labelVars, message, appVars, ifaceVars, obsVars>>

\* The user edits the interval field.
SetIntervalField(f) ==
  /\ prog = "app" /\ uiPc = "idle"
  /\ UNCHANGED ifaceVars
  /\ capture_interval_sec # f
  /\ capture_interval_sec' = f
  /\ message' = "none"
  /\ UNCHANGED <<prog, labelVars, now, model, model_loading, selected_model_path,
                 cap, running, session_records, session_start_time,
                 last_detect_time, timer_start_time, timer_enabled,
                 preview_after_id, timer_after_id, previewPending, timerPending,
                 next_capture_timer, workers, uiPc, obsVars>>

\* ------------------------------------------------- EmotionApp: model load
\* on_model_selected: remembers the path and loads the model on a thread.
on_model_selected ==
  /\ prog = "app" /\ uiPc = "idle"
  /\ UNCHANGED ifaceVars
  /\ ~model_loading /\ model = "None"
  /\ selected_model_path' = "m"
  /\ model_loading' = TRUE
  /\ message' = "none"
  /\ UNCHANGED <<prog, labelVars, now, model, cap, running, session_records,
                 session_start_time, last_detect_time, timer_start_time,
                 timer_enabled, preview_after_id, timer_after_id,
                 previewPending, timerPending, capture_interval_sec,
                 next_capture_timer, workers, uiPc, obsVars>>

\* _load_model_async.on_done, marshalled back with after(0).
on_done(ok) ==
  /\ prog = "app" /\ uiPc = "idle"
  /\ UNCHANGED ifaceVars
  /\ model_loading
  /\ model_loading' = FALSE
  /\ model' = IF ok THEN "loaded" ELSE model
  /\ message' = IF ok THEN "none" ELSE "Error"
  /\ UNCHANGED <<prog, labelVars, now, selected_model_path, cap, running, session_records,
                 session_start_time, last_detect_time, timer_start_time,
                 timer_enabled, preview_after_id, timer_after_id,
                 previewPending, timerPending, capture_interval_sec,
                 next_capture_timer, workers, uiPc, obsVars>>

\* ------------------------------------------------- EmotionApp: the timer
\* The countdown text _update_capture_timer puts in next_capture_timer.
TimerDisplay(epoch, t, interval) ==
  LET total_time == t - epoch
      time_in_cycle == total_time % interval
      time_remaining == interval - time_in_cycle
  IN IF time_remaining <= 0 THEN "CAPTURANDO" ELSE "countdown"

\* Body of _update_capture_timer, called with the chain as (pend, id) and the
\* flags and epoch in force at the call.  The result is the display, the
\* chain after the call and whether the call raised.
update_capture_timer_body(en, run, epoch, pend, id) ==
  IF ~en \/ ~run
  THEN [display |-> "-", pend |-> pend, id |-> id, raised |-> FALSE]
  ELSE LET g == DoubleVarGet(capture_interval_sec) IN
       IF g.exc = "none"
       THEN [display |-> TimerDisplay(epoch, now, Max(MinInterval, g.v)),
             pend |-> pend + 1, id |-> "live", raised |-> FALSE]
       ELSE IF g.exc \in {"ValueError", "TypeError"}
       THEN [display |-> "-", pend |-> pend + 1, id |-> "live", raised |-> FALSE]
       ELSE [display |-> next_capture_timer, pend |-> pend, id |-> id,
             raised |-> TRUE]

\* A pending _update_capture_timer callback fires.  viaId: the callback that
\* fires is the one timer_after_id names.
update_capture_timer(viaId) ==
  /\ prog = "app" /\ uiPc = "idle"
  /\ UNCHANGED ifaceVars
  /\ timerPending >= 1
  /\ IF viaId THEN timer_after_id = "live"
     ELSE timerPending > (IF timer_after_id = "live" THEN 1 ELSE 0)
  /\ LET r == update_capture_timer_body(timer_enabled, running, timer_start_time,
                                        timerPending - 1,
                                        IF viaId THEN "stale" ELSE timer_after_id)
     IN /\ r.pend <= MaxPending
        /\ next_capture_timer' = r.display
        /\ timerPending' = r.pend
        /\ timer_after_id' = r.id
  /\ message' = "none"
  /\ UNCHANGED <<prog, labelVars, now, model, model_loading, selected_model_path,
                 cap, running, session_records, session_start_time,
                 last_detect_time, timer_start_time, timer_enabled,
                 preview_after_id, previewPending, capture_interval_sec,
                 workers, uiPc, obsVars>>

\* ------------------------------------------------- EmotionApp: start
\* A start_camera without the check of running at its head.
start_camera_noGuard(loadOk, opened) ==
  LET noModel == model = "None" /\ selected_model_path = ""
      loadFail == model = "None" /\ ~noModel /\ ~loadOk
      camTried == ~noModel /\ ~loadFail
      go == camTried /\ opened
      \* _start_capture_timer prints capture_interval_sec.get()
      printed == DoubleVarGet(capture_interval_sec).exc = "none"
      tm == update_capture_timer_body(TRUE, TRUE, now, timerPending,
                                      timer_after_id)
      done == go /\ printed /\ ~tm.raised
  IN
  /\ prog = "app" /\ uiPc = "idle"
  /\ UNCHANGED ifaceVars
  /\ sessionNo < MaxSessions
  /\ done => (tm.pend <= MaxPending /\ previewPending < MaxPending)
  /\ model' = IF camTried THEN "loaded" ELSE model
  /\ cap' = IF go THEN "open" ELSE IF camTried THEN "closed" ELSE cap
  /\ running' = (running \/ go)
  /\ session_records' = IF go THEN <<>> ELSE session_records
  /\ session_start_time' = IF go THEN now ELSE session_start_time
  /\ last_detect_time' = IF go THEN 0 ELSE last_detect_time
  /\ timer_start_time' = IF go THEN now ELSE timer_start_time
  /\ timer_enabled' = (timer_enabled \/ go)
  /\ next_capture_timer' = IF go /\ printed THEN tm.display
                           ELSE next_capture_timer
  /\ timerPending' = IF go /\ printed THEN tm.pend ELSE timerPending
  /\ timer_after_id' = IF go /\ printed THEN tm.id ELSE timer_after_id
  /\ previewPending' = IF done THEN previewPending + 1 ELSE previewPending
  /\ preview_after_id' = IF done THEN "live" ELSE preview_after_id
  /\ message' = IF running THEN "none"
                ELSE IF noModel THEN "Modelo requerido"
                ELSE IF loadFail THEN "Error"
                ELSE IF ~opened THEN "Camara"
                ELSE "none"
  /\ sessionNo' = IF go THEN sessionNo + 1 ELSE sessionNo
  /\ dispatchAt' = IF go THEN NoTime ELSE dispatchAt
  /\ dispatchObs' = IF go THEN NoDispatch ELSE dispatchObs
  /\ lastReport' = IF go THEN NoReport ELSE lastReport
  /\ UNCHANGED <<prog, labelVars, now, model_loading, selected_model_path,
                 capture_interval_sec, workers, uiPc, stopOrder,
                 intervalEdited, startedIds, sinceEnd>>

\* start_camera.  loadOk: load_emotion_model succeeds; opened: the camera
\* opens.
start_camera(loadOk, opened) ==
  LET noModel == model = "None" /\ selected_model_path = ""
      loadFail == model = "None" /\ ~noModel /\ ~loadOk
      camTried == ~running /\ ~noModel /\ ~loadFail
      go == camTried /\ opened
      \* _start_capture_timer prints capture_interval_sec.get()
      printed == DoubleVarGet(capture_interval_sec).exc = "none"
      tm == update_capture_timer_body(TRUE, TRUE, now, timerPending,
                                      timer_after_id)
      done == go /\ printed /\ ~tm.raised
  IN
  /\ prog = "app" /\ uiPc = "idle"
  /\ UNCHANGED ifaceVars
  /\ sessionNo < MaxSessions
  /\ done => (tm.pend <= MaxPending /\ previewPending < MaxPending)
  /\ model' = IF camTried THEN "loaded" ELSE model
  /\ cap' = IF go THEN "open" ELSE IF camTried THEN "closed" ELSE cap
  /\ running' = (running \/ go)
  /\ session_records' = IF go THEN <<>> ELSE session_records
  /\ session_start_time' = IF go THEN now ELSE session_start_time
  /\ last_detect_time' = IF go THEN 0 ELSE last_detect_time
  /\ timer_start_time' = IF go THEN now ELSE timer_start_time
  /\ timer_enabled' = (timer_enabled \/ go)
  /\ next_capture_timer' = IF go /\ printed THEN tm.display
                           ELSE next_capture_timer
  /\ timerPending' = IF go /\ printed THEN tm.pend ELSE timerPending
  /\ timer_after_id' = IF go /\ printed THEN tm.id ELSE timer_after_id
  /\ previewPending' = IF done THEN previewPending + 1 ELSE previewPending
  /\ preview_after_id' = IF done THEN "live" ELSE preview_after_id
  /\ message' = IF running THEN "none"
                ELSE IF noModel THEN "Modelo requerido"
                ELSE IF loadFail THEN "Error"
                ELSE IF ~opened THEN "Camara"
                ELSE "none"
  /\ sessionNo' = IF go THEN sessionNo + 1 ELSE sessionNo
  /\ dispatchAt' = IF go THEN NoTime ELSE dispatchAt
  /\ dispatchObs' = IF go THEN NoDispatch ELSE dispatchObs
  /\ lastReport' = IF go THEN NoReport ELSE lastReport
  /\ UNCHANGED <<prog, labelVars, now, model_loading, selected_model_path,
                 capture_interval_sec, workers, uiPc, stopOrder,
                 intervalEdited, startedIds, sinceEnd>>

\* ------------------------------------------------- EmotionApp: preview
\* A detection whose interval check looks at the 0.1 s floor only.
DetectionDue_floorOnly(t, last, interval) == (t - last) >= MinInterval

\* _update_preview, line 849: enough time has passed since the last dispatch.
DetectionDue(t, last, interval) == (t - last) >= Max(MinInterval, interval)

\* A pending _update_preview callback fires.  ret: cap.read() delivers a
\* frame; viaId: the callback is the one preview_after_id names.
update_preview(ret, viaId) ==
  LET pend1 == previewPending - 1
      id1 == IF viaId THEN "stale" ELSE preview_after_id
      g == DoubleVarGet(capture_interval_sec)
      shown == running /\ ret
      \* line 849: `and` evaluates the interval only when a model is loaded
      raised == shown /\ model # "None" /\ g.exc # "none"
      due == shown /\ model # "None" /\ ~raised
             /\ DetectionDue(now, last_detect_time, g.v)
      resched == running /\ ~raised
  IN
  /\ prog = "app" /\ uiPc = "idle"
  /\ UNCHANGED ifaceVars
  /\ previewPending >= 1
  /\ IF viaId THEN preview_after_id = "live"
     ELSE previewPending > (IF preview_after_id = "live" THEN 1 ELSE 0)
  /\ due => HasFree
  /\ previewPending' = IF resched THEN pend1 + 1 ELSE pend1
  /\ preview_after_id' = IF resched THEN "live" ELSE id1
  /\ last_detect_time' = IF due THEN now ELSE last_detect_time
  /\ workers' = IF due
                THEN [workers EXCEPT ![NextFree] =
                        [pc |-> "predict", ts |-> 0, sess |-> sessionNo,
                         conf |-> 0]]
                ELSE workers
  /\ dispatchAt' = IF due THEN now ELSE dispatchAt
  /\ dispatchObs' = IF due
                    THEN Observe(timer_start_time, now,
                                 Max(MinInterval, g.v), dispatchAt)
                    ELSE dispatchObs
  /\ message' = "none"
  /\ UNCHANGED <<prog, labelVars, now, model, model_loading, selected_model_path,
                 cap, running, session_records, session_start_time,
                 timer_start_time, timer_enabled, timer_after_id, timerPending,
                 capture_interval_sec, next_capture_timer, uiPc, sessionNo,
                 lastReport, stopOrder, intervalEdited, startedIds, sinceEnd>>

\* ------------------------------------------------- EmotionApp: detection
\* A detection whose try/except covers the classifier call only and falls
\* through to the rest of the method after a failure.
run_detection_predict_fallthrough(w, ok, conf) ==
  /\ prog = "app"
  /\ UNCHANGED ifaceVars
  /\ workers[w].pc = "predict"
  /\ workers' = [workers EXCEPT ![w] =
                   [@ EXCEPT !.pc = "stamped", !.ts = strftime(now),
                             !.conf = IF ok THEN conf ELSE 0]]
  /\ UNCHANGED <<prog, labelVars, now, message, model, model_loading, selected_model_path,
                 cap, running, session_records, session_start_time,
                 last_detect_time, timer_start_time, timer_enabled,
                 preview_after_id, timer_after_id, previewPending, timerPending,
                 capture_interval_sec, next_capture_timer, uiPc, obsVars>>

\* _run_detection on its own thread, first half: prepare the frame, run the
\* classifier, resolve the label and take the time stamp.  ok: nothing
\* raised; conf: the confidence the classifier returns.
run_detection_predict(w, ok, conf) ==
  /\ prog = "app"
  /\ UNCHANGED ifaceVars
  /\ workers[w].pc = "predict"
  /\ workers' = [workers EXCEPT ![w] =
                   IF ok THEN [@ EXCEPT !.pc = "stamped", !.ts = strftime(now),
                                        !.conf = conf]
                   ELSE FreeWorker]
  /\ UNCHANGED <<prog, labelVars, now, message, model, model_loading, selected_model_path,
                 cap, running, session_records, session_start_time,
                 last_detect_time, timer_start_time, timer_enabled,
                 preview_after_id, timer_after_id, previewPending, timerPending,
                 capture_interval_sec, next_capture_timer, uiPc, obsVars>>

\* _run_detection, second half: encode the image and append the record, on
\* the detection thread itself.
run_detection_append(w) ==
  /\ prog = "app"
  /\ UNCHANGED ifaceVars
  /\ workers[w].pc = "stamped"
  /\ Len(session_records) < MaxRecords
  /\ session_records' = Append(session_records,
                               [timestamp |-> workers[w].ts,
                                confidence |-> workers[w].conf,
                                thread |-> "worker",
                                session |-> workers[w].sess])
  /\ workers' = [workers EXCEPT ![w] = FreeWorker]
  /\ UNCHANGED <<prog, labelVars, now, message, model, model_loading, selected_model_path,
                 cap, running, session_start_time, last_detect_time,
                 timer_start_time, timer_enabled, preview_after_id,
                 timer_after_id, previewPending, timerPending,
                 capture_interval_sec, next_capture_timer, uiPc, obsVars>>

\* ------------------------------------------------- EmotionApp: stop
\* A stop that halts the loops and releases the camera but leaves the
\* running flag set.
stop_and_save_keepsRunning ==
  /\ prog = "app" /\ uiPc = "idle"
  /\ UNCHANGED ifaceVars
  /\ IF ~running
     THEN /\ message' = "Info"
          /\ UNCHANGED <<running, timer_enabled, timerPending, timer_after_id,
                         next_capture_timer, previewPending, preview_after_id,
                         cap, uiPc, dispatchAt, dispatchObs,
                         stopOrder>>
     ELSE /\ running' = running
          \* _stop_capture_timer
          /\ timer_enabled' = FALSE
          /\ timerPending' = after_cancel(timerPending, timer_after_id)
          /\ timer_after_id' = "None"
          /\ next_capture_timer' = "-"
          \* after_cancel(preview_after_id)
          /\ previewPending' = after_cancel(previewPending, preview_after_id)
          /\ preview_after_id' = "None"
          /\ cap' = "None"
          /\ uiPc' = "stop_report"
          /\ message' = "none"
          /\ dispatchAt' = NoTime /\ dispatchObs' = NoDispatch
          /\ stopOrder' = <<"running", "stop_capture_timer",
                            "cancel_preview", "release_cap">>
  /\ UNCHANGED <<prog, labelVars, now, model, model_loading, selected_model_path,
                 session_records, session_start_time, last_detect_time,
                 timer_start_time, capture_interval_sec, workers, sessionNo,
                 lastReport, intervalEdited, startedIds, sinceEnd>>

\* stop_and_save up to the release of the camera (lines 895-926).
stop_and_save ==
  /\ prog = "app" /\ uiPc = "idle"
  /\ UNCHANGED ifaceVars
  /\ IF ~running
     THEN /\ message' = "Info"
          /\ UNCHANGED <<running, timer_enabled, timerPending, timer_after_id,
                         next_capture_timer, previewPending, preview_after_id,
                         cap, uiPc, dispatchAt, dispatchObs,
                         stopOrder>>
     ELSE /\ running' = FALSE
          \* _stop_capture_timer
          /\ timer_enabled' = FALSE
          /\ timerPending' = after_cancel(timerPending, timer_after_id)
          /\ timer_after_id' = "None"
          /\ next_capture_timer' = "-"
          \* after_cancel(preview_after_id)
          /\ previewPending' = after_cancel(previewPending, preview_after_id)
          /\ preview_after_id' = "None"
          /\ cap' = "None"
          /\ uiPc' = "stop_report"
          /\ message' = "none"
          /\ dispatchAt' = NoTime /\ dispatchObs' = NoDispatch
          /\ stopOrder' = <<"running", "stop_capture_timer",
                            "cancel_preview", "release_cap">>
  /\ UNCHANGED <<prog, labelVars, now, model, model_loading, selected_model_path,
                 session_records, session_start_time, last_detect_time,
                 timer_start_time, capture_interval_sec, workers, sessionNo,
                 lastReport, intervalEdited, startedIds, sinceEnd>>

\* A stop that reports whatever the record list holds.
HasRecords_always(records) == TRUE

\* stop_and_save, line 929: `if self.session_records:`
HasRecords(records) == records # <<>>

\* stop_and_save from "Guardar reporte" on, with _save_session_report.
\* io: the report generator writes the file without raising.
stop_and_save_report(io) ==
  LET g == DoubleVarGet(capture_interval_sec)
      r == save_session_report(ReportParams, io)
  IN
  /\ prog = "app" /\ uiPc = "stop_report"
  /\ UNCHANGED ifaceVars
  /\ uiPc' = "idle"
  /\ IF HasRecords(session_records)
     THEN IF g.exc # "none"
          THEN \* float(self.capture_interval_sec.get()) raises inside the try
               /\ message' = "Error al Guardar"
               /\ UNCHANGED lastReport
          ELSE /\ lastReport' = [n |-> Len(session_records),
                                 records |-> session_records,
                                 interval |-> g.v,
                                 duration |-> now - session_start_time,
                                 result |-> r]
               /\ message' = IF r = "ok" THEN "Guardado Exitoso"
                             ELSE "Error al Guardar"
     ELSE /\ message' = "Sesion Vacia"
          /\ UNCHANGED lastReport
  /\ UNCHANGED <<prog, labelVars, now, model, model_loading, selected_model_path, cap,
                 running, session_records, session_start_time, last_detect_time,
                 timer_start_time, timer_enabled, preview_after_id,
                 timer_after_id, previewPending, timerPending,
                 capture_interval_sec, next_capture_timer, workers, sessionNo,
                 dispatchAt, dispatchObs, stopOrder, intervalEdited, startedIds, sinceEnd>>


\* ================================================= EmotionDetectionInterface
appOnly == <<model_loading, selected_model_path, session_records,
             session_start_time, last_detect_time, timer_start_time,
             timer_enabled, preview_after_id, timer_after_id, previewPending,
             timerPending, capture_interval_sec, next_capture_timer, workers,
             uiPc>>

\* float(self.interval_spinbox.get())
FloatOf(f) == IF f.num THEN [exc |-> "none", v |-> f.v]
              ELSE [exc |-> "ValueError", v |-> 0]

\* The keywords SessionManager._save_session_report calls the generator with.
SessionReportKwargs == {"session_data", "output_path", "include_charts"}

\* EmotionModel.set_confidence_threshold
set_confidence_threshold(threshold) == Max(0, Min(100, threshold))

\* EmotionModel._process_predictions: None when the confidence of the best
\* class is below the threshold.
NoResult == [some |-> FALSE, confidence |-> 0]
process_predictions(conf) ==
  IF conf < confidence_threshold THEN NoResult
  ELSE [some |-> TRUE, confidence |-> conf]

\* EmotionModel.predict_emotion: None when the model is not loaded or when
\* anything raises.  ok: nothing raised.
predict_emotion(ok, conf) ==
  IF model = "None" \/ ~ok THEN NoResult ELSE process_predictions(conf)

\* SessionManager.set_capture_interval
set_capture_interval(interval) == Max(MinInterval, Min(MaxInterval, interval))

\* A start_capture_timer that takes the interval as given.
start_capture_timer_noclamp(interval) ==
  [capture_interval |-> interval, capture_timer_enabled |-> TRUE,
   capture_timer_start |-> now]

\* SessionManager.start_capture_timer(interval), interval not None: the
\* timer fields after the call.
start_capture_timer(interval) ==
  [capture_interval |-> Max(MinInterval, interval),
   capture_timer_enabled |-> TRUE, capture_timer_start |-> now]

\* A get_timer_status that counts down from the epoch without wrapping at
\* the cycle boundary.
get_timer_status_nowrap(t) ==
  IF ~capture_timer_enabled
  THEN [enabled |-> FALSE, time_remaining |-> 0, cycle_count |-> NoTime]
  ELSE LET elapsed == t - capture_timer_start
           time_remaining == capture_interval - elapsed
       IN [enabled |-> TRUE, time_remaining |-> time_remaining,
           cycle_count |-> elapsed \div capture_interval]

\* SessionManager.get_timer_status at wall-clock time t
get_timer_status(t) ==
  IF ~capture_timer_enabled
  THEN [enabled |-> FALSE, time_remaining |-> 0, cycle_count |-> NoTime]
  ELSE LET elapsed == t - capture_timer_start
           time_in_cycle == elapsed % capture_interval
           time_remaining == capture_interval - time_in_cycle
       IN [enabled |-> TRUE, time_remaining |-> time_remaining,
           cycle_count |-> elapsed \div capture_interval]

\* An is_capture_time that only compares the remaining time.
is_capture_time_unguarded(t) ==
  get_timer_status(t).time_remaining <= CaptureMargin

\* SessionManager.is_capture_time
is_capture_time(t) ==
  IF ~capture_timer_enabled THEN FALSE
  ELSE get_timer_status(t).time_remaining <= CaptureMargin

\* EmotionDetectionInterface._update_timer_display at wall-clock time t: the
\* branch it takes.
update_timer_display(t) ==
  IF capture_timer_enabled
  THEN IF get_timer_status(t).time_remaining <= 0 THEN "AHORA" ELSE "countdown"
  ELSE "inactive"

\* deque(maxlen=MAX_EMOTION_HISTORY).append
DequeAppend(q, x) ==
  IF Len(q) >= MAX_EMOTION_HISTORY THEN Append(Tail(q), x) ELSE Append(q, x)

\* An end_session whose report call is not wrapped in try/except: when the
\* generator raises, the lines after the call are not run.
end_session_noexcept(save_report, io) ==
  IF ~session_active \/ current_session = NoSession
  THEN [session_active |-> session_active,
        capture_timer_enabled |-> capture_timer_enabled,
        current_session |-> current_session, session_id |-> session_id,
        report |-> NoReport, log |-> "none"]
  ELSE LET duration == now - current_session.start_time
           called == save_report /\ current_session.total_detections > 0
           r == save_session_report(SessionReportKwargs, io)
           raised == called /\ r # "ok"
       IN [session_active |-> FALSE, capture_timer_enabled |-> FALSE,
           current_session |-> IF raised
                               THEN [current_session EXCEPT
                                       !.end_time = now, !.duration = duration]
                               ELSE NoSession,
           session_id |-> IF raised THEN session_id ELSE NoTime,
           report |-> IF called
                      THEN [n |-> current_session.total_detections,
                            records |-> <<>>, interval |-> 0,
                            duration |-> duration, result |-> r]
                      ELSE NoReport,
           log |-> IF ~called \/ raised THEN "none" ELSE "Reporte guardado"]

\* SessionManager.end_session(save_report): the manager's fields after the
\* call, the call made to the report generator (NoReport when none) and the
\* line logged about the report.
end_session(save_report, io) ==
  IF ~session_active \/ current_session = NoSession
  THEN [session_active |-> session_active,
        capture_timer_enabled |-> capture_timer_enabled,
        current_session |-> current_session, session_id |-> session_id,
        report |-> NoReport, log |-> "none"]
  ELSE LET duration == now - current_session.start_time
           called == save_report /\ current_session.total_detections > 0
           r == save_session_report(SessionReportKwargs, io)
       IN [session_active |-> FALSE, capture_timer_enabled |-> FALSE,
           current_session |-> NoSession, session_id |-> NoTime,
           report |-> IF called
                      THEN [n |-> current_session.total_detections,
                            records |-> <<>>, interval |-> 0,
                            duration |-> duration, result |-> r]
                      ELSE NoReport,
           log |-> IF ~called THEN "none"
                   ELSE IF r = "ok" THEN "Reporte guardado"
                   ELSE "SESSION ERROR"]

\* _on_model_selected: ModelManager.load_model, synchronous, then the
\* threshold field is applied to the model.
iface_on_model_selected(ok) ==
  LET f == FloatOf(threshold_spinbox) IN
  /\ prog = "iface"
  /\ model' = IF ok THEN "loaded" ELSE "None"
  /\ model # model'
  /\ confidence_threshold' = IF ok /\ f.exc = "none"
                             THEN set_confidence_threshold(f.v)
                             ELSE confidence_threshold
  /\ message' = "none"
  /\ UNCHANGED <<prog, labelVars, now, cap, running, appOnly, interval_spinbox,
                 cam_is_running, is_capturing, loops, current_session,
                 session_active, session_id, capture_timer_enabled,
                 capture_timer_start, capture_interval, threshold_spinbox,
                 obsVars>>

\* _on_threshold_changed, on a key release in the threshold field holding f.
on_threshold_changed(f) ==
  /\ prog = "iface"
  /\ threshold_spinbox # f
  /\ threshold_spinbox' = f
  /\ confidence_threshold' = IF FloatOf(f).exc = "none" /\ model # "None"
                             THEN set_confidence_threshold(FloatOf(f).v)
                             ELSE confidence_threshold
  /\ message' = "none"
  /\ UNCHANGED <<prog, labelVars, now, model, cap, running, appOnly, interval_spinbox,
                 cam_is_running, is_capturing, loops, current_session,
                 session_active, session_id, capture_timer_enabled,
                 capture_timer_start, capture_interval, obsVars>>

\* An interval change that also restarts the timer cycle at the current time.
on_interval_changed_restart(f) ==
  /\ prog = "iface"
  /\ interval_spinbox # f
  /\ interval_spinbox' = f
  /\ capture_interval' = IF FloatOf(f).exc = "none"
                         THEN set_capture_interval(FloatOf(f).v)
                         ELSE capture_interval
  /\ capture_timer_start' = IF FloatOf(f).exc = "none" THEN now
                            ELSE capture_timer_start
  /\ message' = "none"
  /\ UNCHANGED <<prog, labelVars, now, model, cap, running, appOnly, cam_is_running,
                 is_capturing, loops, current_session, session_active,
                 session_id, capture_timer_enabled,
                 threshold_spinbox, confidence_threshold, sessionNo,
                 dispatchAt, dispatchObs, lastReport, stopOrder, startedIds, sinceEnd>>
  /\ intervalEdited' = (intervalEdited
                          \/ (capture_timer_enabled /\ FloatOf(f).exc = "none"))

\* _on_interval_changed, on a key release in the interval field holding f.
on_interval_changed(f) ==
  /\ prog = "iface"
  /\ interval_spinbox # f
  /\ interval_spinbox' = f
  /\ capture_interval' = IF FloatOf(f).exc = "none"
                         THEN set_capture_interval(FloatOf(f).v)
                         ELSE capture_interval
  /\ message' = "none"
  /\ UNCHANGED <<prog, labelVars, now, model, cap, running, appOnly, cam_is_running,
                 is_capturing, loops, current_session, session_active,
                 session_id, capture_timer_enabled, capture_timer_start,
                 threshold_spinbox, confidence_threshold, sessionNo,
                 dispatchAt, dispatchObs, lastReport, stopOrder, startedIds, sinceEnd>>
  /\ intervalEdited' = (intervalEdited
                          \/ (capture_timer_enabled /\ FloatOf(f).exc = "none"))

\* _toggle_camera -> _start_detection.  camOpen: the device opens; readOk:
\* the test read of initialize_camera delivers a frame; joined: a join of the
\* capture thread returns before its timeout; io: see end_session.
start_detection(camOpen, readOk, joined, io) ==
  LET noModel == model = "None"
      initOk == ~noModel /\ camOpen /\ readOk
      \* initialize_camera failing runs _handle_error, and release_camera
      \* (with stop_capture) after a failed test read
      released == ~noModel /\ camOpen /\ ~readOk
      loops1 == IF released /\ loops >= 1 /\ joined THEN loops - 1 ELSE loops
      \* start_capture returns at once when is_capturing
      spawn == initOk /\ ~is_capturing
      \* start_session ends a session that is still active
      es == end_session(TRUE, io)
      f == FloatOf(interval_spinbox)
      done == initOk /\ f.exc = "none"
      sct == start_capture_timer(f.v)
  IN
  /\ prog = "iface" /\ ~running
  /\ sessionNo < MaxSessions
  /\ spawn => loops < MaxLoops
  /\ cap' = IF noModel THEN cap
            ELSE IF ~camOpen THEN "closed"
            ELSE IF ~readOk THEN "None" ELSE "open"
  /\ cam_is_running' = IF noModel THEN cam_is_running ELSE initOk
  /\ is_capturing' = IF noModel THEN is_capturing ELSE initOk
  /\ loops' = IF spawn THEN loops + 1 ELSE loops1
  /\ session_id' = IF initOk THEN strftime(now) ELSE session_id
  /\ current_session' = IF initOk
                        THEN [NoSession EXCEPT !.start_time = now]
                        ELSE current_session
  /\ session_active' = (session_active \/ initOk)
  /\ capture_timer_start' = IF done THEN sct.capture_timer_start
                            ELSE IF initOk THEN now ELSE capture_timer_start
  /\ capture_timer_enabled' = IF done THEN sct.capture_timer_enabled
                              ELSE IF initOk THEN es.capture_timer_enabled
                              ELSE capture_timer_enabled
  /\ capture_interval' = IF done THEN sct.capture_interval
                         ELSE capture_interval
  /\ running' = done
  /\ message' = IF noModel THEN "Modelo requerido"
                ELSE IF ~camOpen THEN "Error de camara"
                ELSE IF ~readOk THEN "Error de camara"
                ELSE es.log
  /\ sessionNo' = IF initOk THEN sessionNo + 1 ELSE sessionNo
  /\ dispatchAt' = IF initOk THEN NoTime ELSE dispatchAt
  /\ dispatchObs' = IF initOk THEN NoDispatch ELSE dispatchObs
  /\ lastReport' = IF initOk THEN es.report ELSE lastReport
  /\ UNCHANGED <<prog, labelVars, now, model, appOnly, interval_spinbox,
                 threshold_spinbox, confidence_threshold, stopOrder>>
  /\ intervalEdited' = IF initOk THEN FALSE ELSE intervalEdited
  /\ startedIds' = IF initOk THEN Append(startedIds, strftime(now))
                   ELSE startedIds
  /\ sinceEnd' =
       LET ended == session_active /\ current_session # NoSession
           s1 == IF ~initOk THEN sinceEnd
                 ELSE (IF ended THEN {} ELSE sinceEnd) \cup {"start_session"}
       IN IF done THEN s1 \cup {"start_capture_timer"} ELSE s1

\* _toggle_camera -> _stop_detection.
stop_detection(joined, io) ==
  LET es == end_session(TRUE, io) IN
  /\ prog = "iface" /\ running
  \* CameraManager.stop_capture
  /\ cam_is_running' = FALSE
  /\ is_capturing' = FALSE
  /\ loops' = IF loops >= 1 /\ joined THEN loops - 1 ELSE loops
  \* SessionManager.end_session(save_report=True)
  /\ session_active' = es.session_active
  /\ capture_timer_enabled' = es.capture_timer_enabled
  /\ current_session' = es.current_session
  /\ session_id' = es.session_id
  /\ lastReport' = IF es.report # NoReport THEN es.report ELSE lastReport
  /\ message' = es.log
  /\ running' = FALSE
  /\ dispatchAt' = NoTime /\ dispatchObs' = NoDispatch
  /\ UNCHANGED <<prog, labelVars, now, model, cap, appOnly, interval_spinbox,
                 capture_timer_start, capture_interval, threshold_spinbox,
                 confidence_threshold, sessionNo, stopOrder, startedIds>>
  /\ intervalEdited' = FALSE
  /\ sinceEnd' = IF session_active /\ current_session # NoSession THEN {}
                 ELSE sinceEnd

\* One pass of the while loop of CameraManager._capture_loop on a capture
\* thread, with the frame callback _on_new_frame and what it calls.
\* ret: cap.read() delivers a frame; faces: a face is found in it; ok: the
\* classifier call does not raise; conf: the confidence it returns.
capture_loop(ret, faces, ok, conf) ==
  LET frame == cam_is_running /\ ret
      attempt == frame /\ is_capture_time(now) /\ model # "None" /\ faces
      res == predict_emotion(ok, conf)
      \* SessionManager.add_detection
      add == attempt /\ res.some /\ session_active
             /\ current_session # NoSession
  IN
  /\ prog = "iface"
  /\ loops >= 1
  /\ add => current_session.total_detections < MaxRecords
  /\ loops' = IF frame THEN loops ELSE loops - 1
  \* _handle_error after a failed read
  /\ cam_is_running' = frame
  /\ is_capturing' = IF cam_is_running /\ ~ret THEN FALSE ELSE is_capturing
  /\ message' = IF cam_is_running /\ ~ret THEN "Error de camara" ELSE message
  /\ current_session' =
       IF add
       THEN [current_session EXCEPT
               !.total_detections = @ + 1,
               !.detections_history =
                  DequeAppend(@, [timestamp |-> now,
                                  confidence |-> res.confidence,
                                  threshold |-> confidence_threshold,
                                  thread |-> "camera",
                                  session |-> sessionNo])]
       ELSE current_session
  /\ dispatchAt' = IF attempt THEN now ELSE dispatchAt
  /\ dispatchObs' = IF attempt
                    THEN Observe(capture_timer_start, now, capture_interval,
                                 dispatchAt)
                    ELSE dispatchObs
  /\ UNCHANGED <<prog, labelVars, now, model, cap, running, appOnly, interval_spinbox,
                 session_active, session_id, capture_timer_enabled,
                 capture_timer_start, capture_interval, threshold_spinbox,
                 confidence_threshold, sessionNo, lastReport, stopOrder,
                 intervalEdited, startedIds, sinceEnd>>

NextIface ==
  \/ \E ok \in BOOLEAN : iface_on_model_selected(ok)
  \/ \E f \in SpinboxInputs : on_interval_changed(f)
  \/ \E c, r, j, io \in BOOLEAN : start_detection(c, r, j, io)
  \/ \E j, io \in BOOLEAN : stop_detection(j, io)
  \/ \E f \in ThresholdInputs : on_threshold_changed(f)
  \/ \E ret, faces, ok \in BOOLEAN, conf \in ConfInputs :
        capture_loop(ret, faces, ok, conf)

\* ------------------------------------------------------------ Next, Spec
NextApp ==
  \/ \E f \in IntervalInputs : SetIntervalField(f)
  \/ on_model_selected
  \/ \E ok \in BOOLEAN : on_done(ok)
  \/ \E l, o \in BOOLEAN : start_camera(l, o)
  \/ \E viaId \in BOOLEAN : update_capture_timer(viaId)
  \/ \E ret, viaId \in BOOLEAN : update_preview(ret, viaId)
  \/ \E w \in 1..MaxWorkers, ok \in BOOLEAN, conf \in ConfInputs :
        run_detection_predict(w, ok, conf)
  \/ \E w \in 1..MaxWorkers : run_detection_append(w)
  \/ stop_and_save
  \/ \E io \in BOOLEAN : stop_and_save_report(io)

Next == Tick \/ NextApp \/ NextIface

Spec == Init /\ [][Next]_vars


\* ===================================================== label resolution
\* A label: a word of the vocabulary, or a synthetic one, f"{prefix}{i}".
Word(text) == [text |-> text, n |-> NoTime]
Synthetic(prefix, i) == [text |-> prefix, n |-> i]

\* Probability vectors, in tenths: every vector of up to SmallClasses entries
\* over ProbValues, and the longer ones over the two values of TieValues.
ProbValues == {0, 1, 2, 5, 7}
TieValues == {0, 5}
RECURSIVE Vectors(_, _)
Vectors(n, values) ==
  IF n = 0 THEN {<<>>}
  ELSE {Append(v, x) : v \in Vectors(n - 1, values), x \in values}
ProbInputs ==
  UNION ({Vectors(n, ProbValues) : n \in 1..SmallClasses}
         \cup {Vectors(n, TieValues) : n \in (SmallClasses + 1)..MaxClasses})

\* An argmax that keeps the last of several equal maxima.
RECURSIVE ArgmaxLastFrom(_, _, _)
ArgmaxLastFrom(p, i, best) ==
  IF i > Len(p) THEN best
  ELSE ArgmaxLastFrom(p, i + 1, IF p[i] >= p[best] THEN i ELSE best)
argmax_last(p) == ArgmaxLastFrom(p, 2, 1) - 1

\* np.argmax: scan from the left, a later entry wins only when it is greater.
\* The result is the 0-based index.
RECURSIVE ArgmaxFrom(_, _, _)
ArgmaxFrom(p, i, best) ==
  IF i > Len(p) THEN best
  ELSE ArgmaxFrom(p, i + 1, IF p[i] > p[best] THEN i ELSE best)
argmax(p) == ArgmaxFrom(p, 2, 1) - 1

\* A fallback that numbers the synthetic labels from 1.
get_label_set_for_classes_from1(num_classes) ==
  LET fer5 == <<Word("enfado"), Word("asco"), Word("miedo"), Word("feliz"),
                Word("triste")>>
  IN IF num_classes = 5 THEN fer5
     ELSE IF num_classes = 6 THEN fer5 \o <<Word("neutral")>>
     ELSE IF num_classes = 7 THEN fer5 \o <<Word("neutral"), Word("sorpresa")>>
     ELSE IF num_classes = 8
     THEN fer5 \o <<Word("neutral"), Word("sorpresa"), Word("otro")>>
     ELSE [i \in 1..num_classes |-> Synthetic("clase_", i)]

\* utils/model_utils.get_label_set_for_classes; entry i + 1 of the result is
\* the label of class i.
get_label_set_for_classes(num_classes) ==
  LET fer5 == <<Word("enfado"), Word("asco"), Word("miedo"), Word("feliz"),
                Word("triste")>>
  IN IF num_classes = 5 THEN fer5
     ELSE IF num_classes = 6 THEN fer5 \o <<Word("neutral")>>
     ELSE IF num_classes = 7 THEN fer5 \o <<Word("neutral"), Word("sorpresa")>>
     ELSE IF num_classes = 8
     THEN fer5 \o <<Word("neutral"), Word("sorpresa"), Word("otro")>>
     ELSE [i \in 1..num_classes |-> Synthetic("clase_", i - 1)]

\* EmotionConfig.get_labels_for_classes
get_labels_for_classes(num_classes) ==
  LET l5 == <<Word("Enojado"), Word("Asco"), Word("Feliz"), Word("Miedo"),
              Word("Triste")>>
  IN IF num_classes = 5 THEN l5
     ELSE IF num_classes = 6 THEN l5 \o <<Word("Neutral")>>
     ELSE IF num_classes = 7 THEN l5 \o <<Word("Neutral"), Word("Sorpresa")>>
     ELSE IF num_classes = 8
     THEN l5 \o <<Word("Neutral"), Word("Sorpresa"), Word("Otro")>>
     ELSE [i \in 1..num_classes |-> Synthetic("Clase_", i - 1)]

\* EmotionApp._run_detection, lines 858-866: utils predict_emotion (argmax and
\* its probability), then the label from model_labels, the label set of the
\* model's class count.
run_detection_label ==
  LET label_idx == argmax(prob)
      model_labels == get_label_set_for_classes(Len(prob))
  IN
  /\ prog = "labels" /\ resolved = NoLabel
  /\ resolved' = [path |-> "app", idx |-> label_idx,
                  confidence |-> prob[label_idx + 1],
                  label |-> IF Len(model_labels) > label_idx
                            THEN model_labels[label_idx + 1]
                            ELSE Synthetic("Clase ", label_idx)]
  /\ UNCHANGED <<prog, prob, now, message, appVars, ifaceVars, obsVars>>

\* EmotionModel._process_predictions, lines 293-307: argmax, its probability,
\* the threshold, then the label from emotion_labels.
process_predictions_label ==
  LET predicted_class == argmax(prob)
      confidence == prob[predicted_class + 1] * 10
      emotion_labels == get_labels_for_classes(Len(prob))
  IN
  /\ prog = "labels" /\ resolved = NoLabel
  /\ resolved' =
       IF ~process_predictions(confidence).some
       THEN [NoLabel EXCEPT !.path = "model_none"]
       ELSE [path |-> "model", idx |-> predicted_class,
             confidence |-> prob[predicted_class + 1],
             label |-> IF predicted_class < Len(emotion_labels)
                       THEN emotion_labels[predicted_class + 1]
                       ELSE Synthetic("Clase_", predicted_class)]
  /\ UNCHANGED <<prog, prob, now, message, appVars, ifaceVars, obsVars>>

InitLabel ==
  /\ prog = "labels"
  /\ prob \in ProbInputs /\ resolved = NoLabel
  /\ InitState

NextLabel == run_detection_label \/ process_predictions_label

SpecLabel == InitLabel /\ [][NextLabel]_vars


\* ======================================================= SessionManager
\* The SessionManager driven through its own methods, one call per step;
\* detection_callback is set, as EmotionDetectionInterface.__init__ sets it.
TimerArgs == {NoTime, 0, 3}     \* start_capture_timer(interval); NoTime: None
IntervalArgs == {0, 3}          \* set_capture_interval(interval)

\* What is left alone by every method of the SessionManager.
sessionFrame == <<prog, labelVars, model, cap, running, appOnly,
                  interval_spinbox, cam_is_running, is_capturing, loops,
                  threshold_spinbox, confidence_threshold, dispatchAt,
                  dispatchObs, stopOrder, intervalEdited>>

\* A start_session that carries the statistics over to the new session.
start_session_keepsHistory(io) ==
  LET es == end_session(TRUE, io) IN
  [session_active |-> TRUE, capture_timer_enabled |-> es.capture_timer_enabled,
   current_session |-> [current_session EXCEPT !.start_time = now],
   session_id |-> strftime(now), capture_timer_start |-> now,
   report |-> es.report, log |-> es.log]

\* SessionManager.start_session: end_session() when a session is active, then
\* the new id, a new SessionStatistics and the timer epoch.  The result is
\* the manager's fields after the call with the report call and log line of
\* the end_session inside.
start_session(io) ==
  LET es == end_session(TRUE, io) IN
  [session_active |-> TRUE, capture_timer_enabled |-> es.capture_timer_enabled,
   current_session |-> [NoSession EXCEPT !.start_time = now],
   session_id |-> strftime(now), capture_timer_start |-> now,
   report |-> es.report, log |-> es.log]

sm_start_session(io) ==
  LET s == start_session(io) IN
  /\ prog = "session"
  /\ sessionNo < MaxSessions
  /\ session_active' = s.session_active
  /\ capture_timer_enabled' = s.capture_timer_enabled
  /\ current_session' = s.current_session
  /\ session_id' = s.session_id
  /\ capture_timer_start' = s.capture_timer_start
  /\ lastReport' = s.report
  /\ message' = s.log
  /\ sessionNo' = sessionNo + 1
  /\ startedIds' = Append(startedIds, s.session_id)
  /\ sinceEnd' = (IF session_active /\ current_session # NoSession
                  THEN {} ELSE sinceEnd) \cup {"start_session"}
  /\ UNCHANGED <<sessionFrame, now, capture_interval>>

\* SessionManager.end_session(save_report); the message tells a call that
\* returned None from one that returned the statistics.
sm_end_session(save_report, io) ==
  LET es == end_session(save_report, io)
      none == ~session_active \/ current_session = NoSession
  IN
  /\ prog = "session"
  /\ session_active' = es.session_active
  /\ capture_timer_enabled' = es.capture_timer_enabled
  /\ current_session' = es.current_session
  /\ session_id' = es.session_id
  /\ lastReport' = IF es.report # NoReport THEN es.report ELSE lastReport
  /\ message' = IF none THEN "end_session: None"
                ELSE IF es.log = "none" THEN "end_session: stats" ELSE es.log
  /\ sinceEnd' = IF none THEN sinceEnd ELSE {}
  /\ UNCHANGED <<sessionFrame, now, capture_timer_start, capture_interval,
                 sessionNo, startedIds>>

\* SessionManager.add_detection(emotion, confidence)
sm_add_detection(conf) ==
  LET add == session_active /\ current_session # NoSession IN
  /\ prog = "session"
  /\ add => current_session.total_detections < MaxRecords
  /\ current_session' =
       IF add
       THEN [current_session EXCEPT
               !.total_detections = @ + 1,
               !.detections_history =
                  DequeAppend(@, [timestamp |-> now, confidence |-> conf,
                                  threshold |-> confidence_threshold,
                                  thread |-> "caller",
                                  session |-> sessionNo])]
       ELSE current_session
  /\ message' = IF add THEN "detection_callback" ELSE "none"
  /\ UNCHANGED <<sessionFrame, now, session_active, session_id,
                 capture_timer_enabled, capture_timer_start, capture_interval,
                 sessionNo, lastReport, startedIds, sinceEnd>>

\* SessionManager.start_capture_timer(interval)
sm_start_capture_timer(interval) ==
  LET sct == start_capture_timer(interval) IN
  /\ prog = "session"
  /\ capture_interval' = IF interval = NoTime THEN capture_interval
                         ELSE sct.capture_interval
  /\ capture_timer_enabled' = TRUE
  /\ capture_timer_start' = now
  /\ message' = "Timer iniciado"
  /\ sinceEnd' = sinceEnd \cup {"start_capture_timer"}
  /\ UNCHANGED <<sessionFrame, now, session_active, session_id,
                 current_session, sessionNo, lastReport, startedIds>>

\* SessionManager.stop_capture_timer
sm_stop_capture_timer ==
  /\ prog = "session"
  /\ capture_timer_enabled' = FALSE
  /\ message' = "Timer detenido"
  /\ UNCHANGED <<sessionFrame, now, session_active, session_id,
                 current_session, capture_timer_start, capture_interval,
                 sessionNo, lastReport, startedIds, sinceEnd>>

\* SessionManager.set_capture_interval(interval)
sm_set_capture_interval(interval) ==
  /\ prog = "session"
  /\ capture_interval' = set_capture_interval(interval)
  /\ message' = "Intervalo actualizado"
  /\ UNCHANGED <<sessionFrame, now, session_active, session_id,
                 current_session, capture_timer_enabled, capture_timer_start,
                 sessionNo, lastReport, startedIds, sinceEnd>>

\* SessionManager.is_capture_time(): the message is what it returned.
sm_is_capture_time ==
  /\ prog = "session"
  /\ message' = IF is_capture_time(now) THEN "capture" ELSE "wait"
  /\ UNCHANGED <<sessionFrame, now, ifaceVars, obsVars>>

InitSession ==
  /\ prog = "session"
  /\ prob = <<>> /\ resolved = NoLabel
  /\ InitState

NextSession ==
  \/ Tick
  \/ \E io \in BOOLEAN : sm_start_session(io)
  \/ \E sr, io \in BOOLEAN : sm_end_session(sr, io)
  \/ \E conf \in ConfInputs : sm_add_detection(conf)
  \/ \E i \in TimerArgs : sm_start_capture_timer(i)
  \/ sm_stop_capture_timer
  \/ \E i \in IntervalArgs : sm_set_capture_interval(i)
  \/ sm_is_capture_time

SpecSession == InitSession /\ [][NextSession]_vars

\* ================================================================ claims
IsPrefix(a, b) == Len(a) <= Len(b) /\ SubSeq(b, 1, Len(a)) = a

\* C1: once stop_and_save has set running to False, the record list of the
\* finalized session is not extended by a detection that completes later.
C1_NoAppendAfterStop ==
  [][(prog = "app" /\ ~running /\ ~running')
        => session_records' = session_records]_vars

\* C2: in EmotionApp a detection is never dispatched in a timer cycle in
\* which an earlier detection of the same session was dispatched, the cycle
\* being counted from timer_start_time with the interval in force at the
\* dispatch.
C2_OneDispatchPerCycle ==
  (prog = "app" /\ dispatchObs # NoDispatch)
     => dispatchObs.prevCycle # dispatchObs.cycle

\* Two dispatches have happened in one running session.
C2_Witness ==
  prog = "app" /\ running /\ dispatchObs.prevCycle # NoTime

\* C3: in the modular controller a classification is never attempted in a
\* timer cycle in which an earlier attempt of the same session was made.
C3_OneAttemptPerCycle ==
  (prog = "iface" /\ dispatchObs # NoDispatch)
     => dispatchObs.prevCycle # dispatchObs.cycle

\* C4: a detection is dispatched only at a cycle boundary of the capture
\* timer, one full interval or more after the timer epoch.
C4_DispatchOnlyWhenDue ==
  (prog = "app" /\ dispatchObs # NoDispatch)
     => (dispatchObs.offset = 0 /\ dispatchObs.cycle >= 1)

\* C5: a start that fails (no classifier, camera not available, or a step of
\* the start sequence raising on a non-numeric interval field) leaves the
\* controller Idle: not running, no active session, no enabled timer, the
\* camera not capturing, the record list as it was.
AppStartFails(loadOk, opened) ==
  \/ model = "None" /\ (selected_model_path = "" \/ ~loadOk)
  \/ ~opened
  \/ ~capture_interval_sec.num
IfaceStartFails(camOpen, readOk) ==
  model = "None" \/ ~camOpen \/ ~readOk \/ ~interval_spinbox.num
C5_FailedStartStaysIdle ==
  [][ /\ \A l, o \in BOOLEAN :
           (start_camera(l, o) /\ ~running /\ AppStartFails(l, o))
              => (/\ ~running' /\ ~timer_enabled' /\ cap' # "open"
                  /\ session_records' = session_records)
      /\ \A c, r, j, io \in BOOLEAN :
           (start_detection(c, r, j, io) /\ ~session_active
              /\ IfaceStartFails(c, r))
              => (/\ ~running' /\ ~session_active'
                  /\ ~capture_timer_enabled' /\ ~is_capturing'
                  /\ current_session' = current_session) ]_vars

\* C6: a stop from Active ends in Idle whatever the report generator does,
\* and a report that raised is told apart from an empty session.
C6_StopEndsIdle ==
  [][ /\ (prog = "app" /\ uiPc' = "stop_report")
           => (~running' /\ cap' = "None")
      /\ (prog = "app" /\ uiPc = "stop_report" /\ uiPc' = "idle")
           => /\ ~running' /\ cap' = "None"
              /\ session_records = <<>> => message' = "Sesion Vacia"
              /\ (lastReport' # lastReport /\ lastReport'.result # "ok")
                    => message' = "Error al Guardar"
      /\ \A j, io \in BOOLEAN :
           stop_detection(j, io)
              => /\ ~running' /\ ~session_active'
                 /\ current_session' = NoSession /\ session_id' = NoTime
                 /\ current_session.total_detections = 0 => message' = "none"
                 /\ (current_session.total_detections > 0
                       /\ lastReport'.result # "ok")
                       => message' = "SESSION ERROR" ]_vars

\* A stop whose report raised has ended: the controller is idle and the
\* failure has been shown.
C6_Witness ==
  \/ /\ prog = "app" /\ uiPc = "idle" /\ ~running /\ cap = "None"
     /\ lastReport.result = "IOError" /\ message = "Error al Guardar"
  \/ /\ prog = "iface" /\ ~running /\ ~session_active
     /\ lastReport.result = "TypeError" /\ message = "SESSION ERROR"

\* C7: the report generator is called only by a stop that finds at least one
\* detection; a session stopped with none produces no call.
C7_EmptySessionNoReport ==
  [][ (lastReport' # lastReport /\ lastReport' # NoReport)
        => /\ lastReport'.n > 0
           /\ IF prog = "app" THEN session_records # <<>>
              ELSE current_session.total_detections > 0 ]_vars

\* A session has been started and stopped with no record, and no report call
\* was made.
C7_Witness ==
  /\ prog = "app" /\ sessionNo >= 1 /\ ~running /\ uiPc = "idle"
  /\ message = "Sesion Vacia" /\ lastReport = NoReport

\* C8: stopping a session of the SessionManager that holds N >= 1 detections
\* hands the report generator exactly those N records in arrival order, and
\* duration = end_time - start_time.
C8_RoundTrip ==
  [][ \A j, io \in BOOLEAN :
        (stop_detection(j, io) /\ current_session.total_detections >= 1)
           => /\ lastReport'.result \in {"ok", "IOError"}
              /\ lastReport'.records = current_session.detections_history
              /\ lastReport'.duration = now - current_session.start_time ]_vars

\* C9: every record in the store was appended by a callback running on the
\* event loop, none by a worker thread.
C9_AppendOnEventLoop ==
  /\ \A i \in 1..Len(session_records) : session_records[i].thread = "ui"
  /\ \A i \in 1..Len(current_session.detections_history) :
        current_session.detections_history[i].thread = "ui"

\* C10: the records of the running session are in non-decreasing time stamp
\* order, and a record once appended stays as it is.
OwnRecords == SelectSeq(session_records, LAMBDA r : r.session = sessionNo)
C10_RecordsInTimeOrder ==
  [][ prog = "app"
        => /\ \A i, k \in 1..Len(OwnRecords') :
                 i < k => OwnRecords'[i].timestamp <= OwnRecords'[k].timestamp
           /\ (IsPrefix(session_records, session_records')
                 \/ session_records' = <<>>) ]_vars

\* C11: every record in the record list of a session was produced by a
\* detection dispatched during that session; a detection dispatched in the
\* session before never lands in the list of the session after it.
C11_RecordsOfOwnSession ==
  prog = "app"
    => \A i \in 1..Len(session_records) :
          session_records[i].session = sessionNo

\* C12: one failed frame read stops neither the session nor the frame loop:
\* after the failure the loop is armed again (the preview callback is
\* rescheduled, the capture thread stays in its loop) and the session is
\* still active.
C12_ReadFailureKeepsLoop ==
  [][ /\ \A v \in BOOLEAN :
           (update_preview(FALSE, v) /\ running)
              => (running' /\ previewPending' >= 1 /\ preview_after_id' = "live")
      /\ \A f, r \in BOOLEAN, c \in ConfInputs :
           (capture_loop(FALSE, f, r, c) /\ running /\ cam_is_running)
              => (/\ running' /\ session_active' = session_active
                  /\ cam_is_running' /\ loops' = loops) ]_vars

\* C13: a detection whose classifier call raises adds no record and leaves
\* the session active: the detection thread ends with nothing to append, the
\* record list, running/session_active and the frame loop are as before, so
\* later cycles dispatch again.
C13_FailedDetectionDropped ==
  [][ /\ \A w \in 1..MaxWorkers, c \in ConfInputs :
           run_detection_predict(w, FALSE, c)
              => (/\ workers'[w] = FreeWorker
                  /\ session_records' = session_records
                  /\ running' = running
                  /\ previewPending' = previewPending
                  /\ preview_after_id' = preview_after_id
                  /\ last_detect_time' = last_detect_time)
      /\ \A f \in BOOLEAN, c \in ConfInputs :
           (capture_loop(TRUE, f, FALSE, c) /\ running /\ cam_is_running)
              => (/\ current_session' = current_session
                  /\ session_active' = session_active
                  /\ running' /\ cam_is_running' /\ loops' = loops) ]_vars

\* Two detections were dispatched in the running session, the first has
\* ended without a record and the second is in flight.
C13_Witness ==
  /\ prog = "app" /\ running /\ session_records = <<>>
  /\ dispatchObs.prevCycle # NoTime
  /\ Cardinality({w \in 1..MaxWorkers : workers[w].pc = "free"})
       = MaxWorkers - 1
  /\ \E w \in 1..MaxWorkers :
        workers[w].pc = "predict" /\ workers[w].sess = sessionNo

\* C14: every record in the store has a confidence at or above the threshold
\* configured when it was produced (the configured default where the program
\* offers no setting).
C14_RecordsAboveThreshold ==
  /\ \A i \in 1..Len(session_records) :
        session_records[i].confidence >= DEFAULT_CONFIDENCE_THRESHOLD
  /\ \A i \in 1..Len(current_session.detections_history) :
        current_session.detections_history[i].confidence
           >= current_session.detections_history[i].threshold

\* C15: a malformed interval field never halts a scheduled loop: while
\* running, a timer tick and a preview tick each leave a next execution of
\* themselves scheduled, and with the field malformed the timer shows the
\* disabled sentinel "-".
C15_MalformedIntervalKeepsLoops ==
  [][ /\ \A v \in BOOLEAN :
           (update_capture_timer(v) /\ running /\ timer_enabled)
              => (/\ timerPending' >= 1 /\ timer_after_id' = "live"
                  /\ ~capture_interval_sec.num => next_capture_timer' = "-")
      /\ \A r, v \in BOOLEAN :
           (update_preview(r, v) /\ running)
              => (previewPending' >= 1 /\ preview_after_id' = "live") ]_vars

\* Position of step x in the sequence of steps a stop went through.
Pos(steps, x) == CHOOSE i \in 1..Len(steps) : steps[i] = x
NoNewDetection ==
  \A w \in 1..MaxWorkers :
     workers'[w].pc = "predict" => workers[w].pc = "predict"

C17_StopReleasesCamera ==
  [][ /\ (prog = "app" /\ uiPc = "idle" /\ uiPc' = "stop_report")
           => cap' = "None"
      /\ \A j, io \in BOOLEAN :
           stop_detection(j, io) => (~running' /\ cap' = "None") ]_vars

\* C18: with the timer enabled get_timer_status is the sawtooth of
\* (capture_timer_start, capture_interval, now): cycle_count is the number of
\* whole intervals elapsed since the epoch and time_remaining what is left of
\* the current one, in (0, interval]; right after the timer is started
\* time_remaining is the interval and cycle_count is 0; as the clock advances
\* time_remaining goes down by the time elapsed and jumps back to the interval
\* at the cycle boundary.  With the timer disabled the status is
\* enabled = False, time_remaining = 0.
C18_TimerStatusSawtooth ==
  [][ prog = "iface"
        => LET s == get_timer_status(now)
               s1 == get_timer_status(now)'
               elapsed1 == now' - capture_timer_start'
           IN /\ capture_timer_enabled'
                   => /\ s1.enabled
                      /\ s1.cycle_count >= 0
                      /\ s1.cycle_count * capture_interval' <= elapsed1
                      /\ elapsed1 < (s1.cycle_count + 1) * capture_interval'
                      /\ s1.time_remaining
                           = (s1.cycle_count + 1) * capture_interval' - elapsed1
              /\ ~capture_timer_enabled'
                   => (~s1.enabled /\ s1.time_remaining = 0)
              /\ (~running /\ running')
                   => (/\ capture_timer_enabled'
                       /\ s1.time_remaining = capture_interval'
                       /\ s1.cycle_count = 0)
              /\ (Tick /\ capture_timer_enabled)
                   => IF s.time_remaining > 1
                      THEN /\ s1.time_remaining = s.time_remaining - 1
                           /\ s1.cycle_count = s.cycle_count
                      ELSE /\ s1.time_remaining = capture_interval
                           /\ s1.cycle_count = s.cycle_count + 1 ]_vars

\* The running timer has passed a cycle boundary and is inside a later cycle.
C18_Witness ==
  /\ prog = "iface" /\ running /\ capture_timer_enabled
  /\ get_timer_status(now).cycle_count >= 1
  /\ get_timer_status(now).time_remaining < capture_interval

\* C19: the capture interval of the SessionManager is never below 0.1 s,
\* whatever number (zero and negative included) the timer is started with or
\* the interval is set to, and starting the timer enables it with the epoch
\* at the current time.
C19_IntervalClamped ==
  [][ prog = "iface"
        => /\ capture_interval >= MinInterval
           /\ capture_interval' >= MinInterval
           /\ (~running /\ running')
                => /\ capture_timer_enabled'
                   /\ capture_timer_start' = now'
                   /\ capture_interval' >= FloatOf(interval_spinbox).v ]_vars

\* The timer was started with zero or a negative number in the interval
\* field and runs with the interval at the floor.
C19_Witness ==
  /\ prog = "iface" /\ running /\ capture_timer_enabled /\ ~intervalEdited
  /\ interval_spinbox.num /\ interval_spinbox.v <= 0
  /\ capture_interval = MinInterval

\* C20: changing the interval leaves the epoch alone: an interval change
\* modifies capture_interval only (epoch, enabled flag and session are as
\* before), and the status read after it counts remaining time and cycle
\* from the existing epoch with the new interval.
C20_IntervalChangeKeepsEpoch ==
  [][ \A f \in SpinboxInputs :
        on_interval_changed(f)
          => /\ capture_timer_start' = capture_timer_start
             /\ capture_timer_enabled' = capture_timer_enabled
             /\ current_session' = current_session
             /\ session_active' = session_active
             /\ session_id' = session_id
             /\ f.num => capture_interval' = set_capture_interval(f.v)
             /\ capture_timer_enabled
                  => LET elapsed == now - capture_timer_start
                         s1 == get_timer_status(now)'
                     IN /\ s1.cycle_count = elapsed \div capture_interval'
                        /\ s1.time_remaining
                             = capture_interval'
                                 - (elapsed % capture_interval') ]_vars

\* The interval was changed while the timer was running, some time after the
\* epoch, and the timer is in a later cycle of the new interval.
C20_Witness ==
  /\ prog = "iface" /\ running /\ capture_timer_enabled /\ intervalEdited
  /\ interval_spinbox.num
  /\ capture_interval = set_capture_interval(interval_spinbox.v)
  /\ capture_timer_start < now
  /\ get_timer_status(now).cycle_count >= 1

\* C21: the session ids the SessionManager has given out in one run are all
\* different, so no two sessions share a report file name.
C21_SessionIdsUnique ==
  \A i, k \in 1..Len(startedIds) : i # k => startedIds[i] # startedIds[k]

\* C22: for a class count outside 5..8 the label set is the synthetic labels
\* "class_<i>", i = 0..n-1, so [0.1, 0.7, 0.2] resolves to "class_1" with
\* confidence 0.7; for a count in 5..8 it is the fixed vocabulary cut to
\* exactly n labels.
Vocabulary ==
  <<Word("enfado"), Word("asco"), Word("miedo"), Word("feliz"), Word("triste"),
    Word("neutral"), Word("sorpresa"), Word("otro")>>
C23_ArgmaxLowestIndex ==
  (prog = "labels" /\ resolved.path \in {"app", "model"})
    => LET i == resolved.idx + 1 IN
       /\ i \in 1..Len(prob)
       /\ \A j \in 1..Len(prob) : prob[j] <= prob[i]
       /\ \A j \in 1..(i - 1) : prob[j] < prob[i]
       /\ resolved.confidence = prob[i]
       /\ prob = <<5, 5, 0, 0, 0, 0, 0>>
            => resolved.label = IF resolved.path = "app" THEN Word("enfado")
                                ELSE Word("Enojado")

\* The 7-class vector with a tie between classes 0 and 1 has been resolved.
C23_Witness ==
  /\ prog = "labels" /\ prob = <<5, 5, 0, 0, 0, 0, 0>>
  /\ resolved.path = "model" /\ resolved.idx = 0

\* C24: while the capture timer is enabled the remaining time is greater than
\* zero and at most the interval at every time from the epoch on, so neither
\* EmotionApp's display shows "CAPTURANDO" nor the interface's shows "AHORA".
C24_RemainingPositive ==
  /\ next_capture_timer # "CAPTURANDO"
  /\ capture_timer_enabled
       => \A t \in capture_timer_start..(now + MaxElapsed) :
            /\ get_timer_status(t).time_remaining > 0
            /\ get_timer_status(t).time_remaining <= capture_interval
            /\ update_timer_display(t) = "countdown"

\* The interface's timer is read exactly at the end of a cycle.
C24_Witness ==
  /\ capture_timer_enabled /\ now > capture_timer_start
  /\ (now - capture_timer_start) % capture_interval = 0
  /\ update_timer_display(now) = "countdown"

\* C25: after every call on the SessionManager, a failing report inside
\* end_session included, the session is active exactly when there is a
\* current session and exactly when there is a session id.
C25_SessionFieldsAgree ==
  prog = "iface"
    => /\ session_active <=> (current_session # NoSession)
       /\ session_active <=> (session_id # NoTime)

\* A session has been ended by an end_session whose report failed.
C25_Witness ==
  /\ prog = "iface" /\ sessionNo >= 1 /\ ~session_active
  /\ lastReport # NoReport /\ lastReport.result # "ok"
  /\ current_session = NoSession /\ session_id = NoTime

\* C26: in EmotionApp at most one _update_preview callback and at most one
\* _update_capture_timer callback are pending after every step, and while the
\* camera is stopped no step schedules a callback of either chain.
C26_OneCallbackPerChain ==
  [][prog = "app"
       => /\ previewPending' <= 1 /\ timerPending' <= 1
          /\ (~running /\ ~running')
               => (previewPending' <= previewPending
                     /\ timerPending' <= timerPending)]_vars

\* Both chains are armed in a session that follows a stop_and_save.
C26_Witness ==
  /\ prog = "app" /\ running /\ sessionNo >= 2
  /\ previewPending = 1 /\ timerPending = 1

\* C27: at most one thread is executing CameraManager._capture_loop at any
\* time, also when the join of stop_capture timed out and start_capture
\* followed.
C27_OneCaptureLoop == prog = "iface" => loops <= 1

\* C28: a start_session called while a session is active hands that session
\* to the report generator in one call when it has detections and in none
\* when it has not, and leaves one active session that is new: no detections,
\* an empty history, started now; and every detection in the history of the
\* current session was added during that session.
C28_RestartFinalizesFirst ==
  [][prog = "session"
       => /\ \A io \in BOOLEAN :
               (sm_start_session(io) /\ session_active)
                  => /\ current_session.total_detections > 0
                          => (lastReport'.result # "none"
                                /\ lastReport'.n
                                     = current_session.total_detections)
                     /\ current_session.total_detections = 0
                          => lastReport' = NoReport
                     /\ session_active'
                     /\ current_session'.total_detections = 0
                     /\ current_session'.detections_history = <<>>
                     /\ current_session'.start_time = now
          /\ \A i \in 1..Len(current_session'.detections_history) :
               current_session'.detections_history[i].session = sessionNo'
     ]_vars

\* A start_session has ended a session that had detections.
C28_Witness ==
  /\ prog = "session" /\ sessionNo = 2 /\ session_active
  /\ message \in {"SESSION ERROR", "Reporte guardado"}
  /\ lastReport.n >= 1 /\ current_session.total_detections = 0

\* What C29 says of a step taken while the manager is ended: is_capture_time()
\* is False, an add_detection changes nothing and invokes no callback, an
\* end_session returns None, changes nothing and makes no report call.
EndedEffects ==
  /\ ~is_capture_time(now)
  /\ sm_is_capture_time => message' = "wait"
  /\ \A c \in ConfInputs :
       sm_add_detection(c)
          => (message' # "detection_callback"
                /\ UNCHANGED <<current_session, session_active, session_id,
                               lastReport>>)
  /\ \A sr, io \in BOOLEAN :
       sm_end_session(sr, io)
          => (message' = "end_session: None"
                /\ UNCHANGED <<current_session, session_active, session_id,
                               capture_timer_enabled, lastReport>>)

\* C29: from an end_session that ended a session until start_session and
\* start_capture_timer have both been called again, is_capture_time() is
\* False, add_detection changes nothing and invokes no callback, and
\* end_session returns None without a report.
C29_EndedUntilBothCalled ==
  [][(/\ prog = "session" /\ "never_ended" \notin sinceEnd
      /\ ~({"start_session", "start_capture_timer"} \subseteq sinceEnd))
        => EndedEffects]_vars

\* C29 as amended: the same from an end_session that ended a session until
\* start_session or start_capture_timer is called again.
C29_EndedUntilEitherCalled ==
  [][(prog = "session" /\ sinceEnd = {}) => EndedEffects]_vars

\* end_session has been called again on an ended manager, with the capture
\* timer at the disabled sentinel.
C29_Witness ==
  /\ prog = "session" /\ sinceEnd = {} /\ sessionNo >= 1
  /\ message = "end_session: None"
  /\ get_timer_status(now).time_remaining = 0

\* C30: a start_camera while the camera is running leaves session_records,
\* session_start_time, timer_start_time and last_detect_time as they are, and
\* a stop_and_save while it is not running changes no state and makes no
\* report call.
C30_WrongStateNoOp ==
  [][prog = "app"
       => /\ \A l, o \in BOOLEAN :
               (start_camera(l, o) /\ running)
                  => UNCHANGED <<session_records, session_start_time,
                                 timer_start_time, last_detect_time>>
          /\ (stop_and_save /\ ~running)
               => (UNCHANGED <<appVars, now, obsVars>> /\ uiPc' = "idle")
     ]_vars

\* stop_and_save has been called on a stopped camera that holds the records
\* of the last session.
C30_Witness ==
  /\ prog = "app" /\ ~running /\ message = "Info"
  /\ session_records # <<>>


====
